---- MODULE Spec2Model ----
(***************************************************************************)
(* Model of virtual_cpu.py: a decoder of a subset of the 8086 MOV / ADD    *)
(* encodings.  The catalog, the bit-field locators, the size calculation,  *)
(* the renderer (get_asm) and the stream walk of main are translated from  *)
(* the source.  Python exceptions are modelled as results carrying the     *)
(* exception's name in the field err ("" means no exception).              *)
(***************************************************************************)
EXTENDS Integers, Sequences, FiniteSets, TLC

VARIABLES stream, i, instructions, pc, err, out, probe, order, matched

vars == <<stream, i, instructions, pc, err, out, probe, order, matched>>

walkVars == <<stream, i, instructions, pc, err, out>>

probeVars == <<probe, order, matched>>

(***************************************************************************)
(* Bounds and input sets                                                   *)
(***************************************************************************)
MaxLen == 5

\* first bytes: every catalog form, both values of d and w, one unknown byte
FirstVals == {136, 137, 138, 139, 0, 1, 2, 3, 198, 199, 176, 187,
              160, 161, 162, 163, 140, 142, 128, 129, 4, 5, 255}

\* second bytes: mod in 0..3, reg in {0,3}, rm in {0,3,6}
SecondVals == {m * 64 + r * 8 + x : m \in 0..3, r \in {0, 3}, x \in {0, 3, 6}}

\* later bytes: data bytes that are also an opcode (0, 5), a mod/reg/rm byte
\* and unknown opcode (195)
TailVals == {0, 5, 195}

RECURSIVE Tails(_)
Tails(n) == IF n = 0 THEN {<<>>}
            ELSE {<<>>} \cup {<<b>> \o t : b \in TailVals, t \in Tails(n - 1)}

Streams == {<<>>} \cup {<<a>> : a \in FirstVals}
           \cup {<<a, b>> \o t : a \in FirstVals, b \in SecondVals, t \in Tails(MaxLen - 2)}

\* buffers of the termination check: every sequence of at most MaxLiveLen
\* bytes over a register-to-register MOV opcode (139), an immediate-to-memory
\* MOV opcode (198), and two bytes that are data, mod/reg/rm and opcode (0, 195)
MaxLiveLen == 4

LiveVals == {139, 198, 0, 195}

RECURSIVE LiveStreams(_)
LiveStreams(n) == IF n = 0 THEN {<<>>}
                  ELSE {<<>>} \cup {<<b>> \o t : b \in LiveVals, t \in LiveStreams(n - 1)}

(***************************************************************************)
(* Integer helpers: Python's & and >> on non-negative ints                 *)
(***************************************************************************)
RECURSIVE BitAnd(_, _)
BitAnd(a, b) == IF a = 0 \/ b = 0 THEN 0
                ELSE (a % 2) * (b % 2) + 2 * BitAnd(a \div 2, b \div 2)

ShiftRight(a, n) == a \div (2 ^ n)

\* results of operations that may raise
Ok(v) == [err |-> "", val |-> v]

Raise(e) == [err |-> e, val |-> 0]

OkText(t) == [err |-> "", text |-> t]

RaiseText(e) == [err |-> e, text |-> ""]

(***************************************************************************)
(* Lookup tables                                                           *)
(***************************************************************************)
WORD_REG_LOOKUP == <<"ax", "cx", "dx", "bx", "sp", "bp", "si", "di">>

BYTE_REG_LOOKUP == <<"al", "cl", "dl", "bl", "ah", "ch", "dh", "bh">>

EFFECTIVE_ADDRESS_CALCULATION_LOOKUP ==
    << <<"bx", "si">>, <<"bx", "di">>, <<"bp", "si">>, <<"bp", "di">>,
       <<"si">>, <<"di">>, <<"bp">>, <<"bx">> >>

(***************************************************************************)
(* OpCode and Flag                                                         *)
(***************************************************************************)
OpCode(value, instruction, size, base) ==
    [value |-> value, instruction |-> instruction, size |-> size,
     base_size_in_bytes |-> base]

matches_narrow(opcode, input) ==
    ShiftRight(input, (8 - opcode.size) + 1) = ShiftRight(opcode.value, 1)

matches(opcode, input) ==
    LET rshift == 8 - opcode.size
    IN  ShiftRight(input, rshift) = opcode.value

Flag(byte_field, bitmask, rshift) ==
    [byte_field |-> byte_field, bitmask |-> bitmask, rshift |-> rshift]

\* Flag.read on an int window
read(flag, value) == ShiftRight(BitAnd(value, flag.bitmask), flag.rshift)

\* Flag.read on a bytes window: value[self.byte_field] first
read_bytes(flag, value) ==
    IF flag.byte_field >= Len(value) THEN Raise("IndexError")
    ELSE Ok(read(flag, value[flag.byte_field + 1]))

field(byte_field) == Flag(byte_field, 511, 0)

D_FLAG == Flag(0, 2, 1)

W_FLAG1 == Flag(0, 1, 0)

W_FLAG2 == Flag(0, 8, 3)

MOD_FLAG == Flag(1, 192, 6)

REG_FLAG1 == Flag(1, 56, 3)

REG_FLAG2 == Flag(0, 7, 0)

RM_FLAG == Flag(1, 7, 0)

S_FLAG == Flag(0, 2, 1)

SR_FLAG == Flag(1, 24, 3)

InstructionSchema(opcode, flags, has_data, accumulator) ==
    [opcode |-> opcode, flags |-> flags, has_data |-> has_data,
     accumulator |-> accumulator]

INSTRUCTION_TABLE == <<
    InstructionSchema(OpCode(34, "mov", 6, 2),
        ("d" :> D_FLAG) @@ ("w" :> W_FLAG1) @@ ("mod" :> MOD_FLAG) @@ ("reg" :> REG_FLAG1)
        @@ ("rm" :> RM_FLAG) @@ ("disp_lo" :> field(2)) @@ ("disp_hi" :> field(3)),
        FALSE, FALSE),
    InstructionSchema(OpCode(99, "mov", 7, 2),
        ("w" :> W_FLAG1) @@ ("mod" :> MOD_FLAG) @@ ("rm" :> RM_FLAG)
        @@ ("disp_lo" :> field(2)) @@ ("disp_hi" :> field(2)),
        TRUE, FALSE),
    InstructionSchema(OpCode(11, "mov", 4, 2),
        ("w" :> W_FLAG2) @@ ("reg" :> REG_FLAG2),
        TRUE, FALSE),
    InstructionSchema(OpCode(80, "mov", 7, 3),
        ("d" :> D_FLAG) @@ ("w" :> W_FLAG1) @@ ("addr_lo" :> field(1)) @@ ("addr_hi" :> field(2)),
        FALSE, TRUE),
    InstructionSchema(OpCode(81, "mov", 7, 3),
        ("d" :> D_FLAG) @@ ("w" :> W_FLAG1) @@ ("addr_lo" :> field(1)) @@ ("addr_hi" :> field(2)),
        FALSE, TRUE),
    InstructionSchema(OpCode(142, "mov", 8, 2),
        ("mod" :> MOD_FLAG) @@ ("sr" :> SR_FLAG) @@ ("rm" :> RM_FLAG)
        @@ ("disp_lo" :> field(2)) @@ ("disp_hi" :> field(3)),
        FALSE, FALSE),
    InstructionSchema(OpCode(140, "mov", 8, 2),
        ("mod" :> MOD_FLAG) @@ ("sr" :> SR_FLAG) @@ ("rm" :> RM_FLAG)
        @@ ("disp_lo" :> field(2)) @@ ("disp_hi" :> field(3)),
        FALSE, FALSE),
    InstructionSchema(OpCode(0, "add", 6, 2),
        ("d" :> D_FLAG) @@ ("w" :> W_FLAG1) @@ ("mod" :> MOD_FLAG) @@ ("reg" :> REG_FLAG1)
        @@ ("rm" :> RM_FLAG) @@ ("disp_lo" :> field(2)) @@ ("disp_hi" :> field(3)),
        FALSE, FALSE),
    InstructionSchema(OpCode(32, "add", 6, 2),
        ("s" :> S_FLAG) @@ ("w" :> W_FLAG1) @@ ("mod" :> MOD_FLAG) @@ ("rm" :> RM_FLAG)
        @@ ("disp_lo" :> field(2)) @@ ("disp_hi" :> field(3)),
        TRUE, FALSE),
    InstructionSchema(OpCode(2, "add", 7, 3),
        ("w" :> W_FLAG1),
        TRUE, TRUE) >>

(***************************************************************************)
(* InstructionSchema methods                                               *)
(***************************************************************************)
has_flag(schema, flag) == flag \in DOMAIN schema.flags

\* InstructionSchema.read_flag on an int window (stream[index+1], data[index])
read_flag(schema, flag, data) ==
    IF ~has_flag(schema, flag) THEN Raise("KeyError")
    ELSE Ok(read(schema.flags[flag], data))

\* stream[index+1] with Python's bounds check; index is 0-based
ByteAt(s, idx) == IF idx >= Len(s) THEN Raise("IndexError") ELSE Ok(s[idx + 1])

has_displacement(schema, s, index) ==
    IF ~has_flag(schema, "mod") THEN Ok(FALSE)
    ELSE LET b == ByteAt(s, index + 1)
         IN  IF b.err # "" THEN b
             ELSE LET mod == read_flag(schema, "mod", b.val).val
                      rm  == read_flag(schema, "rm", b.val).val
                  IN  Ok(mod = 1 \/ mod = 2 \/ (mod = 0 /\ rm = 6))

get_displacement_in_bytes(schema, s, index) ==
    LET b == ByteAt(s, index + 1)
    IN  IF b.err # "" THEN b
        ELSE LET mod == read_flag(schema, "mod", b.val)
                 rm  == read_flag(schema, "rm", b.val)
             IN  IF mod.err # "" THEN mod
                 ELSE IF rm.err # "" THEN rm
                 ELSE IF mod.val = 1 THEN Ok(1)
                 ELSE IF mod.val = 2 THEN Ok(2)
                 ELSE IF mod.val = 0 /\ rm.val = 6 THEN Ok(2)
                 ELSE Raise("TypeError")

\* the size is never accumulated
calculate_size_zero(schema, data, index) == Ok(0)

calculate_size(schema, data, index) ==
    LET hd == has_displacement(schema, data, index)
    IN  IF hd.err # "" THEN hd
        ELSE LET disp == IF hd.val THEN get_displacement_in_bytes(schema, data, index)
                         ELSE Ok(0)
             IN  IF disp.err # "" THEN disp
                 ELSE IF ~schema.has_data
                      THEN Ok(schema.opcode.base_size_in_bytes + disp.val)
                 ELSE LET w == read_flag(schema, "w", data[index + 1])
                      IN  IF w.err # "" THEN w
                          ELSE Ok(schema.opcode.base_size_in_bytes + disp.val + 1
                                  + (IF w.val = 1 THEN 1 ELSE 0))

(***************************************************************************)
(* Instruction: schema is the index of the matched catalog entry           *)
(***************************************************************************)
Instruction(schema, data, size, displacement_size_in_bytes, data_start_index) ==
    [schema |-> schema, data |-> data, size |-> size,
     displacement_size_in_bytes |-> displacement_size_in_bytes,
     data_start_index |-> data_start_index]

SchemaOf(ins) == INSTRUCTION_TABLE[ins.schema]

\* Instruction.read_flag: self.flags[flag] (KeyError), then value[byte_field]
I_read_flag(ins, flag) ==
    IF ~has_flag(SchemaOf(ins), flag) THEN Raise("KeyError")
    ELSE read_bytes(SchemaOf(ins).flags[flag], ins.data)

get_dest_register_reg(ins) ==
    IF SchemaOf(ins).accumulator THEN Ok(0)
    ELSE I_read_flag(ins, "reg")

get_dest_register(ins) ==
    IF SchemaOf(ins).accumulator THEN Ok(0)
    ELSE IF has_flag(SchemaOf(ins), "d")
         THEN LET d == I_read_flag(ins, "d")
              IN  IF d.err # "" THEN d
                  ELSE IF d.val = 0 THEN I_read_flag(ins, "rm")
                  ELSE I_read_flag(ins, "reg")
         ELSE I_read_flag(ins, "reg")

get_source_register(ins) ==
    IF has_flag(SchemaOf(ins), "d")
    THEN LET d == I_read_flag(ins, "d")
         IN  IF d.err # "" THEN d
             ELSE IF d.val = 0 THEN I_read_flag(ins, "reg")
             ELSE I_read_flag(ins, "rm")
    ELSE I_read_flag(ins, "rm")

\* int(bytes([hi, lo]).hex(), 16): two hex digits per byte, parsed base 16
HexToInt(bs) == bs[1] * 256 + bs[2]

read_immediate_data(ins) ==
    LET w == IF has_flag(SchemaOf(ins), "w") THEN I_read_flag(ins, "w") ELSE Ok(0)
        start == ins.data_start_index
        \* a negative index counts from the end of the slice
        At(k) == IF k < 0
                 THEN (IF -k > Len(ins.data) THEN Raise("IndexError")
                       ELSE Ok(ins.data[Len(ins.data) + k + 1]))
                 ELSE ByteAt(ins.data, k)
    IN  IF w.err # "" THEN w
        ELSE IF has_flag(SchemaOf(ins), "w") /\ w.val = 1
        THEN LET hi == At(start + 1)
                 lo == At(start)
             IN  IF hi.err # "" THEN hi
                 ELSE IF lo.err # "" THEN lo
                 ELSE Ok(BitAnd(HexToInt(<<hi.val, lo.val>>), 65535))
        ELSE LET b == At(start)
             IN  IF b.err # "" THEN b ELSE Ok(BitAnd(b.val, 255))

\* register is a result; an exception raised while computing the argument
\* propagates before get_opperand is entered
get_opperand(ins, register) ==
    IF register.err # "" THEN RaiseText(register.err)
    ELSE LET w == I_read_flag(ins, "w")
         IN  IF w.err # "" THEN RaiseText(w.err)
             ELSE IF w.val = 1 THEN OkText(WORD_REG_LOOKUP[register.val + 1])
             ELSE OkText(BYTE_REG_LOOKUP[register.val + 1])

read_disp8(ins) ==
    LET b == ByteAt(ins.data, 2)
    IN  IF b.err # "" THEN b ELSE Ok(BitAnd(b.val, 255))

read_disp16(ins) ==
    LET hi == ByteAt(ins.data, 3)
        lo == ByteAt(ins.data, 2)
    IN  IF hi.err # "" THEN hi
        ELSE IF lo.err # "" THEN lo
        ELSE Ok(BitAnd(HexToInt(<<hi.val, lo.val>>), 65535))

\* called only with mod in {0, 1, 2}
get_displacement(ins, mod) ==
    IF mod = 0 THEN Ok(0)
    ELSE IF mod = 1 THEN read_disp8(ins)
    ELSE read_disp16(ins)

read_address(ins) ==
    LET w == I_read_flag(ins, "w")
    IN  IF w.err # "" THEN w
        ELSE IF w.val = 1
        THEN LET hi == I_read_flag(ins, "addr_hi")
                 lo == I_read_flag(ins, "addr_lo")
             IN  IF hi.err # "" THEN hi
                 ELSE IF lo.err # "" THEN lo
                 ELSE Ok(BitAnd(HexToInt(<<hi.val, lo.val>>), 65535))
        ELSE I_read_flag(ins, "addr_lo")

\* " + ".join(eac)
RECURSIVE Join(_)
Join(parts) == IF Len(parts) = 1 THEN parts[1]
               ELSE parts[1] \o " + " \o Join(Tail(parts))

Bracket(n) == IF n.err # "" THEN RaiseText(n.err)
              ELSE OkText("[" \o ToString(n.val) \o "]")

\* f"{opcode_literal} {opperand1}, {opperand2}"; opperand1 is computed first
Render(ins, opperand1, opperand2) ==
    IF opperand1.err # "" THEN opperand1
    ELSE IF opperand2.err # "" THEN opperand2
    ELSE OkText(SchemaOf(ins).opcode.instruction \o " " \o opperand1.text
                \o ", " \o opperand2.text)

\* get_asm, mod in {0, 1, 2}
get_asm_memory(ins, mod) ==
    LET schema == SchemaOf(ins)
        rm   == I_read_flag(ins, "rm")
        base == EFFECTIVE_ADDRESS_CALCULATION_LOOKUP[rm.val + 1]
        disp == get_displacement(ins, mod)
        eac  == IF disp.val > 0 THEN Append(base, ToString(disp.val)) ELSE base
        mem  == OkText("[" \o Join(eac) \o "]")
    IN  IF rm.err # "" THEN RaiseText(rm.err)
        ELSE IF disp.err # "" THEN RaiseText(disp.err)
        ELSE IF rm.val = 6
        THEN Render(ins, get_opperand(ins, get_dest_register(ins)),
                    Bracket(read_disp16(ins)))
        ELSE IF has_flag(schema, "reg")
        THEN LET d == I_read_flag(ins, "d")
             IN  IF d.err # "" THEN RaiseText(d.err)
                 ELSE IF d.val = 1
                 THEN Render(ins, get_opperand(ins, get_dest_register(ins)), mem)
                 ELSE Render(ins, mem, get_opperand(ins, get_source_register(ins)))
        ELSE IF ~has_flag(schema, "w") THEN RaiseText("UnboundLocalError")
        ELSE LET w == I_read_flag(ins, "w")
                 immediate_prefix == IF w.val = 1 THEN "word" ELSE "byte"
                 imm == read_immediate_data(ins)
             IN  IF w.err # "" THEN RaiseText(w.err)
                 ELSE IF imm.err # "" THEN RaiseText(imm.err)
                 ELSE Render(ins, mem,
                             OkText(immediate_prefix \o " " \o ToString(imm.val)))

\* get_asm, schema without a mod flag
get_asm_no_mod(ins) ==
    LET d == I_read_flag(ins, "d")
    IN  IF d.err # "" THEN RaiseText(d.err)
        ELSE IF SchemaOf(ins).accumulator
        THEN IF d.val = 0
             THEN Render(ins, get_opperand(ins, Ok(0)), Bracket(read_address(ins)))
             ELSE Render(ins, Bracket(read_address(ins)), get_opperand(ins, Ok(0)))
        ELSE IF d.val = 0
             THEN Render(ins, get_opperand(ins, get_dest_register(ins)),
                         get_opperand(ins, get_source_register(ins)))
             ELSE Render(ins, get_opperand(ins, get_source_register(ins)),
                         get_opperand(ins, get_dest_register(ins)))

get_asm(ins) ==
    IF has_flag(SchemaOf(ins), "mod")
    THEN LET mod == I_read_flag(ins, "mod")
         IN  IF mod.err # "" THEN RaiseText(mod.err)
             ELSE IF mod.val = 3
             THEN Render(ins, get_opperand(ins, get_dest_register(ins)),
                         get_opperand(ins, get_source_register(ins)))
             ELSE get_asm_memory(ins, mod.val)
    ELSE get_asm_no_mod(ins)

(***************************************************************************)
(* read_instruction                                                        *)
(***************************************************************************)
TableOrder == [k \in 1..Len(INSTRUCTION_TABLE) |-> k]

\* for schema in INSTRUCTION_TABLE: if schema.opcode.matches(byte): ...
\* walks the entries in the order ord; 0 when the loop falls through
RECURSIVE FindSchema(_, _)
FindSchema(ord, byte) ==
    IF ord = <<>> THEN 0
    ELSE IF matches(INSTRUCTION_TABLE[Head(ord)].opcode, byte) THEN Head(ord)
    ELSE FindSchema(Tail(ord), byte)

\* stream[a:b]
Slice(s, a, b) == SubSeq(s, a + 1, IF b > Len(s) THEN Len(s) ELSE b)

NoInstruction == Instruction(0, <<>>, 0, 0, -1)

read_instruction_found(s, start_index, k) ==
    LET schema == INSTRUCTION_TABLE[k]
        size == calculate_size(schema, s, start_index)
        hd   == has_displacement(schema, s, start_index)
        disp == IF hd.err = "" /\ hd.val
                THEN get_displacement_in_bytes(schema, s, start_index)
                ELSE Ok(0)
        data_start_index ==
            IF schema.has_data
            THEN schema.opcode.base_size_in_bytes + disp.val
            ELSE -1
    IN  IF size.err # "" THEN [err |-> size.err, ins |-> NoInstruction]
        ELSE IF hd.err # "" THEN [err |-> hd.err, ins |-> NoInstruction]
        ELSE IF disp.err # "" THEN [err |-> disp.err, ins |-> NoInstruction]
        ELSE [err |-> "",
              ins |-> Instruction(k, Slice(s, start_index, start_index + size.val),
                                  size.val, disp.val, data_start_index)]

\* the loop falls through and the last schema of the loop is used
read_instruction_fallthrough(s, start_index) ==
    LET k == FindSchema(TableOrder, s[start_index + 1])
    IN  read_instruction_found(s, start_index,
                               IF k = 0 THEN Len(INSTRUCTION_TABLE) ELSE k)

read_instruction(s, start_index) ==
    LET k == FindSchema(TableOrder, s[start_index + 1])
    IN  IF k = 0 THEN [err |-> "Unknown Instruction", ins |-> NoInstruction]
        ELSE read_instruction_found(s, start_index, k)

(***************************************************************************)
(* main: the stream walk, then write_asm                                   *)
(***************************************************************************)
Init ==
    /\ stream \in Streams
    /\ i = 0
    /\ instructions = <<>>
    /\ pc = "scanning"
    /\ err = ""
    /\ out = <<>>
    /\ probe = 0
    /\ order = TableOrder
    /\ matched = -1

\* one iteration of the while loop whose read_instruction returns
WalkStep ==
    /\ pc = "scanning"
    /\ i < Len(stream)
    /\ LET r == read_instruction(stream, i)
       IN  /\ r.err = ""
           /\ instructions' = Append(instructions, r.ins)
           /\ i' = i + r.ins.size
    /\ UNCHANGED <<stream, pc, err, out, probeVars>>

\* one iteration of the while loop whose read_instruction raises
WalkRaise ==
    /\ pc = "scanning"
    /\ i < Len(stream)
    /\ LET r == read_instruction(stream, i)
       IN  /\ r.err # ""
           /\ err' = r.err
           /\ pc' = "error"
    /\ UNCHANGED <<stream, i, instructions, out, probeVars>>

\* the loop condition fails; write_asm opens the file and writes the header
WalkDone ==
    /\ pc = "scanning"
    /\ i >= Len(stream)
    /\ pc' = "writing"
    /\ out' = <<"bits 16">>
    /\ UNCHANGED <<stream, i, instructions, err, probeVars>>

\* write_asm: one iteration of the for loop whose get_asm returns
WriteLine ==
    /\ pc = "writing"
    /\ Len(out) <= Len(instructions)
    /\ LET r == get_asm(instructions[Len(out)])
       IN  /\ r.err = ""
           /\ out' = Append(out, r.text)
    /\ UNCHANGED <<stream, i, instructions, pc, err, probeVars>>

\* write_asm: one iteration of the for loop whose get_asm raises
WriteRaise ==
    /\ pc = "writing"
    /\ Len(out) <= Len(instructions)
    /\ LET r == get_asm(instructions[Len(out)])
       IN  /\ r.err # ""
           /\ err' = r.err
           /\ pc' = "error"
    /\ UNCHANGED <<stream, i, instructions, out, probeVars>>

\* write_asm: the for loop is exhausted and the file is closed
WriteDone ==
    /\ pc = "writing"
    /\ Len(out) > Len(instructions)
    /\ pc' = "finished"
    /\ UNCHANGED <<stream, i, instructions, err, out, probeVars>>

Next == WalkStep \/ WalkRaise \/ WalkDone \/ WriteLine \/ WriteRaise \/ WriteDone

Spec == Init /\ [][Next]_vars

LiveInit ==
    /\ stream \in LiveStreams(MaxLiveLen)
    /\ i = 0
    /\ instructions = <<>>
    /\ pc = "scanning"
    /\ err = ""
    /\ out = <<>>
    /\ probe = 0
    /\ order = TableOrder
    /\ matched = -1

\* the walk is a sequential loop: a step that can be taken is taken
FairSpec == LiveInit /\ [][Next]_vars /\ WF_vars(Next)

(***************************************************************************)
(* The catalog walk of read_instruction on every first byte, with the      *)
(* entries visited in the source order or in another order                 *)
(***************************************************************************)
Reversed == [k \in 1..Len(INSTRUCTION_TABLE) |-> Len(INSTRUCTION_TABLE) + 1 - k]

Rotated(n) == [k \in 1..Len(INSTRUCTION_TABLE) |->
                  ((k + n - 1) % Len(INSTRUCTION_TABLE)) + 1]

Orders == {Reversed} \cup {Rotated(n) : n \in 0..(Len(INSTRUCTION_TABLE) - 1)}

MatchInit ==
    /\ stream = <<>>
    /\ i = 0
    /\ instructions = <<>>
    /\ pc = "scanning"
    /\ err = ""
    /\ out = <<>>
    /\ probe \in 0..255
    /\ order \in Orders
    /\ matched = -1

Probe ==
    /\ matched = -1
    /\ matched' = FindSchema(order, probe)
    /\ UNCHANGED <<walkVars, probe, order>>

MatchNext == Probe

MatchSpec == MatchInit /\ [][MatchNext]_vars

(***************************************************************************)
(* Fields of an instruction window, read off the raw bytes                 *)
(***************************************************************************)
B0(ins) == ins.data[1]

B1(ins) == ins.data[2]

\* MOV 100010dw and ADD 000000dw
IsRegMemForm(ins) == Len(ins.data) >= 2 /\ (B0(ins) \div 4) \in {34, 0}

\* MOV 1100011w, MOV 10001110, MOV 10001100, ADD 100000sw
IsModNoRegForm(ins) ==
    /\ Len(ins.data) >= 2
    /\ \/ (B0(ins) \div 2) = 99
       \/ B0(ins) \in {142, 140}
       \/ (B0(ins) \div 4) = 32

Mnemonic(ins) == IF (B0(ins) \div 4) \in {0, 32} THEN "add" ELSE "mov"

ModOf(ins) == B1(ins) \div 64

RegOf(ins) == (B1(ins) \div 8) % 8

RmOf(ins) == B1(ins) % 8

DOf(ins) == (B0(ins) \div 2) % 2

WOf(ins) == B0(ins) % 2

RegName(w, r) == IF w = 1 THEN WORD_REG_LOOKUP[r + 1] ELSE BYTE_REG_LOOKUP[r + 1]

RegNames == {RegName(w, r) : w \in {0, 1}, r \in 0..7}

Complete(ins) == Len(ins.data) = ins.size

\* the line written for instruction k, once write_asm has written it
Rendered(k) == pc \in {"writing", "finished", "error"} /\ k < Len(out)

\* get_asm raised on instruction k
RenderRaised(k) == pc = "error" /\ out # <<>> /\ Len(out) = k

\* the stream walk finished without raising
WalkFinished == pc \in {"writing", "finished"} \/ (pc = "error" /\ out # <<>>)

RECURSIVE ConcatData(_)
ConcatData(seq) == IF seq = <<>> THEN <<>>
                   ELSE Head(seq).data \o ConcatData(Tail(seq))

RECURSIVE SumSizes(_)
SumSizes(seq) == IF seq = <<>> THEN 0 ELSE Head(seq).size + SumSizes(Tail(seq))

\* displacement of a complete window, low byte first
DispOf(ins) == IF ModOf(ins) = 0 THEN 0
               ELSE IF ModOf(ins) = 1 THEN ins.data[3]
               ELSE ins.data[3] + 256 * ins.data[4]

MemOperand(ins) ==
    "[" \o Join(EFFECTIVE_ADDRESS_CALCULATION_LOOKUP[RmOf(ins) + 1])
        \o (IF DispOf(ins) # 0 THEN " + " \o ToString(DispOf(ins)) ELSE "") \o "]"

(***************************************************************************)
(* C1: when the stream walk finishes without raising, the visited offsets  *)
(* partition the buffer: every slice has exactly size bytes, the slices    *)
(* concatenated are the buffer, and the final offset is the buffer length. *)
(***************************************************************************)
C1_Partition ==
    WalkFinished =>
        /\ i = Len(stream)
        /\ i = SumSizes(instructions)
        /\ \A k \in 1..Len(instructions) : Complete(instructions[k])
        /\ ConcatData(instructions) = stream

(***************************************************************************)
(* C2: a register/memory-to/from-register instruction with mod = 3 has     *)
(* size 2 and renders as "<mnemonic> <op1>, <op2>", op1 named by reg and   *)
(* op2 by rm when d = 1, swapped when d = 0, names from the table of w.    *)
(***************************************************************************)
C2_RegToReg ==
    \A k \in 1..Len(instructions) :
        LET ins == instructions[k]
            r   == RegName(WOf(ins), RegOf(ins))
            m   == RegName(WOf(ins), RmOf(ins))
        IN  (IsRegMemForm(ins) /\ ModOf(ins) = 3) =>
                /\ ins.size = 2
                /\ ~RenderRaised(k)
                /\ Rendered(k) =>
                       out[k + 1] = Mnemonic(ins) \o " "
                                    \o (IF DOf(ins) = 1 THEN r ELSE m) \o ", "
                                    \o (IF DOf(ins) = 1 THEN m ELSE r)

C2_Witness ==
    /\ pc = "finished"
    /\ stream = <<139, 195, 0, 195>>
    /\ out = <<"bits 16", "mov ax, bx", "add bl, al">>

(***************************************************************************)
(* C3: a buffer holding exactly one immediate-to-register MOV or one       *)
(* immediate-to-accumulator ADD yields one instruction that consumes the   *)
(* whole buffer and renders as "<mnemonic> <register>, <immediate>".       *)
(***************************************************************************)
IsOneImmediate ==
    /\ Len(stream) >= 2
    /\ \/ (stream[1] \div 16) = 11 /\ Len(stream) = 2 + ((stream[1] \div 8) % 2)
       \/ (stream[1] \div 2) = 2 /\ Len(stream) = 2 + (stream[1] % 2)

ImmediateLine ==
    LET b == stream[1]
        imm == IF Len(stream) = 3 THEN stream[2] + 256 * stream[3] ELSE stream[2]
    IN  IF (b \div 16) = 11
        THEN "mov " \o RegName((b \div 8) % 2, b % 8) \o ", " \o ToString(imm)
        ELSE "add " \o RegName(b % 2, 0) \o ", " \o ToString(imm)

C3_ImmediateForms ==
    (IsOneImmediate /\ pc \in {"finished", "error"}) =>
        /\ pc = "finished"
        /\ Len(instructions) = 1
        /\ i = Len(stream)
        /\ instructions[1].data = stream
        /\ out = <<"bits 16", ImmediateLine>>

(***************************************************************************)
(* C4: a register/memory-to/from-register instruction with mod = 0 and     *)
(* rm = 6 has size 4, operand 1 is the register named by reg and operand 2 *)
(* is the bracketed address byte[2] | (byte[3] << 8), for every d, w, reg. *)
(***************************************************************************)
C4_DirectAddress ==
    \A k \in 1..Len(instructions) :
        LET ins == instructions[k]
        IN  (IsRegMemForm(ins) /\ ModOf(ins) = 0 /\ RmOf(ins) = 6 /\ Len(ins.data) >= 4) =>
                /\ ins.size = 4
                /\ ~RenderRaised(k)
                /\ Rendered(k) =>
                       out[k + 1] = Mnemonic(ins) \o " "
                                    \o RegName(WOf(ins), RegOf(ins)) \o ", ["
                                    \o ToString(ins.data[3] + 256 * ins.data[4]) \o "]"

(***************************************************************************)
(* C5: for a register/memory-to/from-register instruction with mod in      *)
(* {0,1,2}, except mod = 0 with rm = 6, the memory operand is the          *)
(* bracketed sum of the base registers of rm, followed by " + D" exactly   *)
(* when the displacement D is non-zero (rm = 6 with mod 1 or 2 included).  *)
(***************************************************************************)
C5_MemoryOperand ==
    \A k \in 1..Len(instructions) :
        LET ins == instructions[k]
        IN  (/\ IsRegMemForm(ins)
             /\ ModOf(ins) \in {0, 1, 2}
             /\ ~(ModOf(ins) = 0 /\ RmOf(ins) = 6)
             /\ Complete(ins)) =>
                /\ ~RenderRaised(k)
                /\ Rendered(k) =>
                       \E x \in RegNames :
                           out[k + 1] \in
                               {Mnemonic(ins) \o " " \o x \o ", " \o MemOperand(ins),
                                Mnemonic(ins) \o " " \o MemOperand(ins) \o ", " \o x}

(***************************************************************************)
(* C6: when the byte at the current offset matches no catalog entry, the   *)
(* decode step fails with "Unknown Instruction"; the offset does not move, *)
(* no instruction is produced, no line is written, and the walk stops.     *)
(***************************************************************************)
NoEntryMatches(byte) ==
    \A k \in 1..Len(INSTRUCTION_TABLE) :
        ShiftRight(byte, 8 - INSTRUCTION_TABLE[k].opcode.size)
            # INSTRUCTION_TABLE[k].opcode.value

AtUnknownByte == pc = "scanning" /\ i < Len(stream) /\ NoEntryMatches(stream[i + 1])

C6_UnknownStops ==
    [][/\ AtUnknownByte =>
              /\ pc' = "error"
              /\ err' = "Unknown Instruction"
              /\ i' = i
              /\ instructions' = instructions
              /\ out = <<>> /\ out' = <<>>
       /\ (pc = "error" /\ err = "Unknown Instruction") => FALSE]_vars

C6_Witness ==
    /\ pc = "error"
    /\ err = "Unknown Instruction"
    /\ stream = <<139, 195, 195>>
    /\ i = 2
    /\ Len(instructions) = 1
    /\ out = <<>>

(***************************************************************************)
(* C7: decoding and rendering never read a byte at or beyond the end of    *)
(* the buffer or of the instruction's slice, and a decoded instruction is  *)
(* never returned for a window the buffer ends before.                     *)
(***************************************************************************)
C7_NoReadPastEnd ==
    /\ err # "IndexError"
    /\ \A k \in 1..Len(instructions) : Complete(instructions[k])

(***************************************************************************)
(* C8: every successful decode step returns a size of at least 1 and       *)
(* strictly increases the offset, and the walk eventually leaves the       *)
(* scanning loop (done or aborted).                                        *)
(***************************************************************************)
C8_Terminates ==
    /\ [][(pc = "scanning" /\ instructions' # instructions) =>
              /\ instructions'[Len(instructions')].size >= 1
              /\ i' > i]_vars
    /\ <>(pc # "scanning")

C8_Witness ==
    /\ pc = "finished"
    /\ Len(instructions) = 2
    /\ i = Len(stream)

(***************************************************************************)
(* C9: for every first byte at most one catalog entry matches, so the      *)
(* entry found does not depend on the order in which the table is walked   *)
(* and every entry is found for every byte its own pattern accepts.        *)
(***************************************************************************)
C9_UniqueMatch ==
    matched # -1 =>
        /\ Cardinality({k \in 1..Len(INSTRUCTION_TABLE) :
                           matches(INSTRUCTION_TABLE[k].opcode, probe)}) <= 1
        /\ matched = FindSchema(TableOrder, probe)
        /\ \A k \in 1..Len(INSTRUCTION_TABLE) :
               matches(INSTRUCTION_TABLE[k].opcode, probe) => matched = k

C9_Witness ==
    /\ matched = 6
    /\ probe = 142
    /\ order = Reversed

(***************************************************************************)
(* C10: for every schema with a mod field and no reg field and every       *)
(* complete window with mod # 3 and rm # 6, get_asm returns a line whose   *)
(* operand 1 is the memory reference and whose operand 2 is                *)
(* "byte <immediate>" (w = 0) or "word <immediate>" (w = 1), the immediate *)
(* read at offset base size + displacement size.                           *)
(***************************************************************************)
ImmediateOf(ins) ==
    LET start == 2 + (IF ModOf(ins) = 0 THEN 0 ELSE ModOf(ins))
    IN  IF WOf(ins) = 1
        THEN "word " \o ToString(ins.data[start + 1] + 256 * ins.data[start + 2])
        ELSE "byte " \o ToString(ins.data[start + 1])

C10_PrefixAssigned ==
    \A k \in 1..Len(instructions) :
        LET ins == instructions[k]
        IN  (/\ IsModNoRegForm(ins)
             /\ ModOf(ins) # 3
             /\ RmOf(ins) # 6
             /\ Complete(ins)) =>
                /\ ~RenderRaised(k)
                /\ Rendered(k) =>
                       out[k + 1] = Mnemonic(ins) \o " " \o MemOperand(ins) \o ", "
                                    \o ImmediateOf(ins)

====
